---- MODULE Spec2Model ----
(***************************************************************************)
(* Model of the fetch wrapper (fetcher), its request helpers               *)
(* (serializeBody, createHeaders, extractErrorMessage) and of the ApiError *)
(* class with its classification predicates.                               *)
(*                                                                         *)
(* JavaScript values are tagged records: [t |-> "undefined"],              *)
(* [t |-> "null"], [t |-> "string", s |-> ...], [t |-> "number", n |-> ..],*)
(* [t |-> "object", entries |-> <<key, value>> pairs in insertion order>>, *)
(* [t |-> "FormData", ...], [t |-> "Error", message |-> ...].              *)
(* The Korean message texts of the source are rendered in ASCII.           *)
(***************************************************************************)
EXTENDS Integers, Sequences, FiniteSets, TLC

VARIABLES
    pc,          \* position of the fetcher call: idle, fetch, errJson, json, settled
    endpoint,    \* first argument of the running fetcher call
    options,     \* second argument of the running fetcher call
    fetchCalls,  \* the (endpoint, fetchOptions) pairs handed to fetch during the call
    response,    \* the Response the transport resolved with, or NoResponse
    caught,      \* the value the transport call rejected with, or NotCaught
    jsonCalls,   \* number of response.json() invocations during the call
    outcome,     \* how the promise returned by fetcher settled
    apiError,    \* an ApiError instance under classification
    classified,  \* results of the predicates called on apiError
    client,      \* the config captured by createHttpClient, or NoClient
    clientCall   \* verb and arguments of the running client method, or NoClientCall

vars == <<pc, endpoint, options, fetchCalls, response, caught, jsonCalls,
          outcome, apiError, classified, client, clientCall>>

(***************************************************************************)
(* JavaScript values                                                       *)
(***************************************************************************)
Undefined == [t |-> "undefined"]
Null == [t |-> "null"]
Str(s) == [t |-> "string", s |-> s]
Num(n) == [t |-> "number", n |-> n]
Obj(entries) == [t |-> "object", entries |-> entries]

\* a ?? b
Nullish(v) == v = Undefined \/ v = Null
Coalesce(a, b) == IF Nullish(a) THEN b ELSE a

\* the empty plain object {}
EmptyRecord == [k \in {} |-> ""]

\* obj.key on a value that is not null or undefined: the own property, else
\* undefined (the keys of an object of the model are distinct)
RECURSIVE Lookup(_, _)
Lookup(entries, key) ==
    IF entries = <<>> THEN Undefined
    ELSE IF Head(entries)[1] = key THEN Head(entries)[2]
         ELSE Lookup(Tail(entries), key)

GetProperty(v, key) ==
    IF v.t = "object" THEN Lookup(v.entries, key) ELSE Undefined

(***************************************************************************)
(* errors/errorCode.ts                                                     *)
(***************************************************************************)
HTTP_ERROR_CODE == {400, 401, 403, 404, 500}

HTTP_ERROR_MESSAGE ==
    (400 :> "bad request") @@
    (401 :> "authentication required") @@
    (403 :> "access denied") @@
    (404 :> "resource not found") @@
    (500 :> "server error")

isKnownErrorCode(status) == status \in HTTP_ERROR_CODE

(***************************************************************************)
(* errors/ApiError.ts                                                      *)
(***************************************************************************)
getDefaultMessage(status) ==
    IF isKnownErrorCode(status)
    THEN HTTP_ERROR_MESSAGE[status]
    ELSE "unknown error (status: " \o ToString(status) \o ")"

\* variant: the constructor does not keep the endpoint
NewApiError_noEndpoint(status, message, ep) ==
    [name |-> "ApiError",
     status |-> status,
     message |-> IF Nullish(message) THEN getDefaultMessage(status) ELSE message.s,
     errorCode |-> IF isKnownErrorCode(status) THEN Num(status) ELSE Null,
     endpoint |-> ""]

\* new ApiError({ status, message, endpoint }); message is a JS value
\* (a string, undefined or null), the stored message is a string
NewApiError(status, message, ep) ==
    [name |-> "ApiError",
     status |-> status,
     message |-> IF Nullish(message) THEN getDefaultMessage(status) ELSE message.s,
     errorCode |-> IF isKnownErrorCode(status) THEN Num(status) ELSE Null,
     endpoint |-> ep]

isStatus(e, status) == e.status = status

isAuthError(e) == e.status = 401 \/ e.status = 403

\* variant: the upper bound of the 4xx range taken inclusively
isClientError_inclusive(e) == e.status >= 400 /\ e.status <= 500

isClientError(e) == e.status >= 400 /\ e.status < 500

isServerError(e) == e.status >= 500 /\ e.status < 600

(***************************************************************************)
(* Inputs of a fetcher call                                                *)
(***************************************************************************)
Endpoints == {"/api/users", "/api/users/1"}

Methods == {Undefined, Str("POST"), Str("DELETE")}

\* JsonBody values (Record<string, unknown>)
JsonBodies ==
    { Obj(<<>>),
      Obj(<< <<"name", Str("New User")>>, <<"email", Str("test@example.com")>> >>),
      Obj(<< <<"id", Num(1)>>, <<"nick", Undefined>>, <<"tag", Null>> >>) }

FormDatas == { [t |-> "FormData", parts |-> <<"file">>] }

Bodies == {Undefined} \cup JsonBodies \cup FormDatas

HeaderNames == {"Content-Type", "Authorization"}

CallerValue ==
    ("Content-Type" :> "text/plain") @@ ("Authorization" :> "Bearer token123")

HeaderRecords == { [k \in D |-> CallerValue[k]] : D \in SUBSET HeaderNames }

\* HeadersInit: a plain record of name -> value, or a Headers instance
\* holding the same entries; undefined when the caller passes no headers
HeadersInits ==
    {Undefined}
    \cup { [t |-> "record", h |-> h] : h \in HeaderRecords }
    \cup { [t |-> "Headers", h |-> h] : h \in HeaderRecords }

\* RequestInit.mode; with "no-cors" a cross-origin answer is an opaque response
Modes == {Undefined, Str("no-cors")}

RequestOptionsSet ==
    [method : Methods, mode : Modes, headers : HeadersInits, body : Bodies]

(***************************************************************************)
(* api/fetcher.ts: request helpers                                         *)
(***************************************************************************)
DEFAULT_HEADERS == ("Content-Type" :> "application/json")

\* { ...x }: the own enumerable string-keyed properties of x.  A plain
\* record has its entries as own properties; a Headers instance keeps its
\* entries in an internal list and has no own enumerable property;
\* undefined spreads to nothing.
SpreadProps(x) == IF x.t = "record" THEN x.h ELSE EmptyRecord

\* { ...a, ...b } for two property maps
MergeProps(a, b) ==
    [k \in DOMAIN a \cup DOMAIN b |-> IF k \in DOMAIN b THEN b[k] ELSE a[k]]

JsonValueText(v) ==
    CASE v.t = "string" -> "\"" \o v.s \o "\""
      [] v.t = "number" -> ToString(v.n)
      [] v.t = "null" -> "null"

\* members of JSON.stringify's output: properties whose value is undefined
\* are left out, the others are written in insertion order
RECURSIVE JsonMembers(_)
JsonMembers(entries) ==
    IF entries = <<>> THEN ""
    ELSE LET e == Head(entries)
             rest == JsonMembers(Tail(entries))
         IN IF e[2] = Undefined THEN rest
            ELSE "\"" \o e[1] \o "\":" \o JsonValueText(e[2])
                 \o (IF rest = "" THEN "" ELSE "," \o rest)

JSONstringify(obj) == Str("{" \o JsonMembers(obj.entries) \o "}")

serializeBody(body) ==
    IF body = Undefined THEN Undefined
    ELSE IF body.t = "FormData" THEN body
    ELSE JSONstringify(body)

createHeaders(customHeaders, body) ==
    IF body.t = "FormData"
    THEN SpreadProps(customHeaders)
    ELSE MergeProps(DEFAULT_HEADERS, SpreadProps(customHeaders))

\* const fetchOptions = { ...restOptions, headers: ..., body: ... }
fetchOptions(opts) ==
    [method |-> opts.method,
     mode |-> opts.mode,
     headers |-> createHeaders(opts.headers, opts.body),
     body |-> serializeBody(opts.body)]

(***************************************************************************)
(* What the transport can answer                                           *)
(***************************************************************************)
NoResponse == [t |-> "none"]

\* status 0 is the status of an opaque response (a cross-origin answer to a
\* request with mode: "no-cors"), whose body cannot be read
Statuses == {0, 200, 201, 204, 302, 400, 401, 403, 404, 418, 500, 503}

\* Response.ok
StatusOk(status) == status >= 200 /\ status <= 299

\* values response.json() can resolve with
JsonValues ==
    { Null, Str("plain"), Num(7), Obj(<<>>),
      Obj(<< <<"id", Num(1)>>, <<"name", Str("Test User")>> >>),
      Obj(<< <<"message", Str("invalid request format")>> >>),
      Obj(<< <<"message", Str("")>>, <<"error", Str("E_EMPTY")>> >>),
      Obj(<< <<"error", Str("not found")>> >>),
      Obj(<< <<"message", Str("expired")>>, <<"error", Str("E_TOKEN")>> >>),
      Obj(<< <<"message", Null>>, <<"error", Str("E_NULL")>> >>),
      Obj(<< <<"message", Null>>, <<"error", Null>> >>) }

\* how response.json() settles
JsonSettles ==
    { [settle |-> "reject"] } \cup
    { [settle |-> "resolve", value |-> v] : v \in JsonValues }

Responses ==
    { r \in [ok : BOOLEAN, status : Statuses, json : JsonSettles] :
        /\ r.ok = StatusOk(r.status)
        /\ r.status = 0 => r.json.settle = "reject" }

\* values the transport call can reject with
RejectReasons ==
    { [t |-> "Error", message |-> "Failed to fetch"],
      [t |-> "Error", message |-> ""],
      Str("offline"), Undefined }

Pending == [kind |-> "pending"]
Returned(v) == [kind |-> "returned", value |-> v]
Thrown(e) == [kind |-> "thrown", error |-> e]

\* options = {}
NoOptions ==
    [method |-> Undefined, mode |-> Undefined, headers |-> Undefined,
     body |-> Undefined]

NotCaught == [t |-> "none"]

NoClient == [t |-> "none"]
NoClientCall == [verb |-> "none"]

NoError == [name |-> "none"]
NotClassified == [done |-> FALSE]

(***************************************************************************)
(* api/fetcher.ts: fetcher, one action per stretch between two awaits      *)
(***************************************************************************)
Init ==
    /\ pc = "idle"
    /\ endpoint = ""
    /\ options = NoOptions
    /\ fetchCalls = <<>>
    /\ response = NoResponse
    /\ caught = NotCaught
    /\ jsonCalls = 0
    /\ outcome = Pending
    /\ apiError = NoError
    /\ classified = NotClassified
    /\ client = NoClient
    /\ clientCall = NoClientCall

\* fetcher(ep, opts) up to `await fetch(endpoint, fetchOptions)`
fetcher(ep, opts) ==
    /\ pc = "idle"
    /\ pc' = "fetch"
    /\ endpoint' = ep
    /\ options' = opts
    /\ fetchCalls' = <<[endpoint |-> ep, init |-> fetchOptions(opts)]>>
    /\ response' = NoResponse
    /\ caught' = NotCaught
    /\ jsonCalls' = 0
    /\ outcome' = Pending

\* a direct call of fetcher
Call(ep, opts) ==
    /\ fetcher(ep, opts)
    /\ UNCHANGED <<apiError, classified, client, clientCall>>

\* variant: the message of the caught value passed on as it is
NetworkErrorMessage_raw(reason) ==
    IF reason.t = "Error" THEN Str(reason.message) ELSE Undefined

\* the catch block around `await fetch(...)`
NetworkErrorMessage(reason) ==
    IF reason.t = "Error"
    THEN Str("network error: " \o reason.message)
    ELSE Str("a network error occurred")

\* variant: a rejected transport call is issued once more
FetchRejects_retry(reason) ==
    /\ pc = "fetch"
    /\ Len(fetchCalls) < 2
    /\ fetchCalls' = Append(fetchCalls, fetchCalls[1])
    /\ UNCHANGED <<pc, endpoint, options, response, caught, jsonCalls, outcome,
                   apiError, classified, client, clientCall>>

FetchRejects(reason) ==
    /\ pc = "fetch"
    /\ pc' = "settled"
    /\ caught' = reason
    /\ outcome' = Thrown(NewApiError(0, NetworkErrorMessage(reason), endpoint))
    /\ UNCHANGED <<endpoint, options, fetchCalls, response, jsonCalls,
                   apiError, classified, client, clientCall>>

\* variant: no special case for 204, the body of every ok response is parsed
FetchResolves_parse204(r) ==
    /\ pc = "fetch"
    /\ r.status = 0 => options.mode = Str("no-cors")
    /\ response' = r
    /\ pc' = IF ~r.ok THEN "errJson" ELSE "json"
    /\ jsonCalls' = jsonCalls + 1
    /\ UNCHANGED <<endpoint, options, fetchCalls, caught, outcome, apiError,
                   classified, client, clientCall>>

\* fetch resolved: the code up to the next await or to the return
FetchResolves(r) ==
    /\ pc = "fetch"
    /\ r.status = 0 => options.mode = Str("no-cors")
    /\ response' = r
    /\ IF ~r.ok
       THEN /\ pc' = "errJson"
            /\ jsonCalls' = jsonCalls + 1
            /\ UNCHANGED outcome
       ELSE IF r.status = 204
       THEN /\ pc' = "settled"
            /\ outcome' = Returned(Undefined)
            /\ UNCHANGED jsonCalls
       ELSE /\ pc' = "json"
            /\ jsonCalls' = jsonCalls + 1
            /\ UNCHANGED outcome
    /\ UNCHANGED <<endpoint, options, fetchCalls, caught, apiError, classified,
                   client, clientCall>>

\* variant: errorBody.message || errorBody.error
extractErrorMessage_or(json) ==
    IF json.settle = "reject" THEN Undefined
    ELSE IF Nullish(json.value) THEN Undefined
    ELSE LET m == GetProperty(json.value, "message")
         IN IF Nullish(m) \/ m = Str("")
            THEN GetProperty(json.value, "error") ELSE m

\* extractErrorMessage after `await response.json()`: the value it resolves
\* with.  Reading a property of null throws inside the try block.
extractErrorMessage(json) ==
    IF json.settle = "reject" THEN Undefined
    ELSE IF Nullish(json.value) THEN Undefined
    ELSE Coalesce(GetProperty(json.value, "message"),
                  GetProperty(json.value, "error"))

\* response.json() of a non-ok response settles: throw the ApiError
ErrorBodySettles ==
    /\ pc = "errJson"
    /\ pc' = "settled"
    /\ outcome' = Thrown(NewApiError(response.status,
                                     extractErrorMessage(response.json),
                                     endpoint))
    /\ UNCHANGED <<endpoint, options, fetchCalls, response, caught, jsonCalls,
                   apiError, classified, client, clientCall>>

\* variant: the parsed body returned inside a { data } envelope
BodyResolves_wrapped ==
    /\ pc = "json"
    /\ response.json.settle = "resolve"
    /\ pc' = "settled"
    /\ outcome' = Returned(Obj(<< <<"data", response.json.value>> >>))
    /\ UNCHANGED <<endpoint, options, fetchCalls, response, caught, jsonCalls,
                   apiError, classified, client, clientCall>>

\* response.json() of an ok response resolves: return the value
BodyResolves ==
    /\ pc = "json"
    /\ response.json.settle = "resolve"
    /\ pc' = "settled"
    /\ outcome' = Returned(response.json.value)
    /\ UNCHANGED <<endpoint, options, fetchCalls, response, caught, jsonCalls,
                   apiError, classified, client, clientCall>>

\* variant: an unparsable ok body swallowed, undefined returned
BodyRejects_swallow ==
    /\ pc = "json"
    /\ response.json.settle = "reject"
    /\ pc' = "settled"
    /\ outcome' = Returned(Undefined)
    /\ UNCHANGED <<endpoint, options, fetchCalls, response, caught, jsonCalls,
                   apiError, classified, client, clientCall>>

\* response.json() of an ok response rejects: the catch block
BodyRejects ==
    /\ pc = "json"
    /\ response.json.settle = "reject"
    /\ pc' = "settled"
    /\ outcome' = Thrown(NewApiError(response.status,
                                     Str("cannot parse the response"),
                                     endpoint))
    /\ UNCHANGED <<endpoint, options, fetchCalls, response, caught, jsonCalls,
                   apiError, classified, client, clientCall>>

\* the caller has observed the settled promise; nothing of the call is kept
\* (fetcher has no state outside its own frame) and the next call may start
Finish ==
    /\ pc = "settled"
    /\ pc' = "idle"
    /\ endpoint' = ""
    /\ options' = NoOptions
    /\ fetchCalls' = <<>>
    /\ response' = NoResponse
    /\ caught' = NotCaught
    /\ jsonCalls' = 0
    /\ outcome' = Pending
    /\ clientCall' = NoClientCall
    /\ UNCHANGED <<apiError, classified, client>>

Next ==
    \/ \E ep \in Endpoints, opts \in RequestOptionsSet : Call(ep, opts)
    \/ \E reason \in RejectReasons : FetchRejects(reason)
    \/ \E r \in Responses : FetchResolves(r)
    \/ ErrorBodySettles
    \/ BodyResolves
    \/ BodyRejects
    \/ Finish

Spec == Init /\ [][Next]_vars

(***************************************************************************)
(* errors/ApiError.ts on its own: construct an ApiError of any status and  *)
(* call its classification predicates                                      *)
(***************************************************************************)
MaxStatus == 610

ApiErrorMessages == {Undefined, Str("token expired")}

Construct(status, message, ep) ==
    /\ apiError = NoError
    /\ apiError' = NewApiError(status, message, ep)
    /\ classified' = NotClassified
    /\ UNCHANGED <<pc, endpoint, options, fetchCalls, response, caught,
                   jsonCalls, outcome, client, clientCall>>

Classify ==
    /\ apiError # NoError
    /\ ~classified.done
    /\ classified' = [done |-> TRUE,
                      isStatus401 |-> isStatus(apiError, 401),
                      isAuthError |-> isAuthError(apiError),
                      isClientError |-> isClientError(apiError),
                      isServerError |-> isServerError(apiError)]
    /\ UNCHANGED <<pc, endpoint, options, fetchCalls, response, caught,
                   jsonCalls, outcome, apiError, client, clientCall>>

\* the classified error goes out of scope
Discard ==
    /\ classified.done
    /\ apiError' = NoError
    /\ classified' = NotClassified
    /\ UNCHANGED <<pc, endpoint, options, fetchCalls, response, caught,
                   jsonCalls, outcome, client, clientCall>>

NextApiError ==
    \/ \E status \in 0..MaxStatus, message \in ApiErrorMessages,
          ep \in Endpoints : Construct(status, message, ep)
    \/ Classify
    \/ Discard

SpecApiError == Init /\ [][NextApiError]_vars

(***************************************************************************)
(* api/httpClient.ts: createHttpClient and the verb methods of a client    *)
(***************************************************************************)
\* URL strings of the client are kept as token sequences, so that
\* startsWith and the trailing-slash test can be computed; Join gives the
\* string handed to fetcher
BaseURLs == { <<"/", "api">>, <<"https://", "api.example.com", "/">> }

ClientEndpoints ==
    { <<"/", "users">>, <<"users">>,
      <<"https://", "other.example.com", "/", "ping">> }

RECURSIVE Join(_)
Join(tokens) ==
    IF tokens = <<>> THEN "" ELSE Head(tokens) \o Join(Tail(tokens))

\* values of the client-wide default headers, different from the per-call ones
DefaultValue ==
    ("Content-Type" :> "application/xml") @@ ("Authorization" :> "Bearer default")

DefaultHeaderRecords == { [k \in D |-> DefaultValue[k]] : D \in SUBSET HeaderNames }

DefaultHeadersInits ==
    {Undefined}
    \cup { [t |-> "record", h |-> h] : h \in DefaultHeaderRecords }
    \cup { [t |-> "Headers", h |-> h] : h \in DefaultHeaderRecords }

HttpClientConfigs == [baseURL : BaseURLs, defaultHeaders : DefaultHeadersInits]

\* the options argument of a verb method; the type leaves out method and
\* body, a caller can still pass a method at run time
ClientOptionsSet ==
    [method : {Undefined, Str("TRACE")}, mode : {Undefined},
     headers : HeadersInits, body : {Undefined}]

ClientBodies ==
    { Undefined,
      Obj(<< <<"name", Str("New User")>>, <<"email", Str("test@example.com")>> >>) }
    \cup FormDatas

buildURL(baseURL, ep) ==
    IF ep # <<>> /\ Head(ep) \in {"http://", "https://"}
    THEN Join(ep)
    ELSE LET base == IF baseURL # <<>> /\ baseURL[Len(baseURL)] = "/"
                     THEN SubSeq(baseURL, 1, Len(baseURL) - 1)
                     ELSE baseURL
             path == IF ep # <<>> /\ Head(ep) = "/" THEN ep ELSE <<"/">> \o ep
         IN Join(base \o path)

\* { ...defaultHeaders, ...customHeaders }
mergeHeaders(defaultHeaders, customHeaders) ==
    [t |-> "record",
     h |-> MergeProps(SpreadProps(defaultHeaders), SpreadProps(customHeaders))]

toRequestBody(body) ==
    IF body = Undefined \/ body.t = "FormData" THEN body ELSE body

createHttpClient(config) ==
    /\ client = NoClient
    /\ pc = "idle"
    /\ client' = [baseURL |-> config.baseURL,
                  defaultHeaders |-> IF config.defaultHeaders = Undefined
                                     THEN [t |-> "record", h |-> EmptyRecord]
                                     ELSE config.defaultHeaders]
    /\ UNCHANGED <<pc, endpoint, options, fetchCalls, response, caught,
                   jsonCalls, outcome, apiError, classified, clientCall>>

get(ep, opts) ==
    /\ client # NoClient
    /\ fetcher(buildURL(client.baseURL, ep),
               [method |-> Str("GET"),
                mode |-> opts.mode,
                headers |-> mergeHeaders(client.defaultHeaders, opts.headers),
                body |-> opts.body])
    /\ clientCall' = [verb |-> "GET", endpoint |-> ep, body |-> Undefined,
                      options |-> opts]
    /\ UNCHANGED <<apiError, classified, client>>

post(ep, body, opts) ==
    /\ client # NoClient
    /\ fetcher(buildURL(client.baseURL, ep),
               [method |-> Str("POST"),
                mode |-> opts.mode,
                headers |-> mergeHeaders(client.defaultHeaders, opts.headers),
                body |-> toRequestBody(body)])
    /\ clientCall' = [verb |-> "POST", endpoint |-> ep, body |-> body,
                      options |-> opts]
    /\ UNCHANGED <<apiError, classified, client>>

put(ep, body, opts) ==
    /\ client # NoClient
    /\ fetcher(buildURL(client.baseURL, ep),
               [method |-> Str("PUT"),
                mode |-> opts.mode,
                headers |-> mergeHeaders(client.defaultHeaders, opts.headers),
                body |-> toRequestBody(body)])
    /\ clientCall' = [verb |-> "PUT", endpoint |-> ep, body |-> body,
                      options |-> opts]
    /\ UNCHANGED <<apiError, classified, client>>

patch(ep, body, opts) ==
    /\ client # NoClient
    /\ fetcher(buildURL(client.baseURL, ep),
               [method |-> Str("PATCH"),
                mode |-> opts.mode,
                headers |-> mergeHeaders(client.defaultHeaders, opts.headers),
                body |-> toRequestBody(body)])
    /\ clientCall' = [verb |-> "PATCH", endpoint |-> ep, body |-> body,
                      options |-> opts]
    /\ UNCHANGED <<apiError, classified, client>>

delete(ep, opts) ==
    /\ client # NoClient
    /\ fetcher(buildURL(client.baseURL, ep),
               [method |-> Str("DELETE"),
                mode |-> opts.mode,
                headers |-> mergeHeaders(client.defaultHeaders, opts.headers),
                body |-> opts.body])
    /\ clientCall' = [verb |-> "DELETE", endpoint |-> ep, body |-> Undefined,
                      options |-> opts]
    /\ UNCHANGED <<apiError, classified, client>>

\* the answers of the transport used with the client
ClientResponses ==
    { r \in Responses :
        /\ r.status \in {200, 204, 404}
        /\ r.json \in { [settle |-> "reject"],
                        [settle |-> "resolve", value |-> Obj(<<>>)] } }

ClientRejectReasons == { [t |-> "Error", message |-> "Failed to fetch"] }

NextClient ==
    \/ \E config \in HttpClientConfigs : createHttpClient(config)
    \/ \E ep \in ClientEndpoints, opts \in ClientOptionsSet : get(ep, opts)
    \/ \E ep \in ClientEndpoints, body \in ClientBodies, opts \in ClientOptionsSet :
          post(ep, body, opts)
    \/ \E ep \in ClientEndpoints, body \in ClientBodies, opts \in ClientOptionsSet :
          put(ep, body, opts)
    \/ \E ep \in ClientEndpoints, body \in ClientBodies, opts \in ClientOptionsSet :
          patch(ep, body, opts)
    \/ \E ep \in ClientEndpoints, opts \in ClientOptionsSet : delete(ep, opts)
    \/ \E reason \in ClientRejectReasons : FetchRejects(reason)
    \/ \E r \in ClientResponses : FetchResolves(r)
    \/ ErrorBodySettles
    \/ BodyResolves
    \/ BodyRejects
    \/ Finish

SpecClient == Init /\ [][NextClient]_vars

(***************************************************************************)
(* Properties                                                              *)
(***************************************************************************)
\* the headers the caller supplied, whatever the form of the HeadersInit
CallerHeaders == IF options.headers = Undefined THEN EmptyRecord ELSE options.headers.h

Transmitted == fetchCalls[1].init

NonOkSettled == pc = "settled" /\ response # NoResponse /\ ~response.ok

\* the four-level message rule of C1, written out from the claim
C1_Field(key) ==
    IF response.json.settle = "resolve" /\ response.json.value.t = "object"
    THEN Lookup(response.json.value.entries, key)
    ELSE Undefined

C1_ExpectedMessage ==
    LET m == C1_Field("message")
        e == C1_Field("error")
        s == response.status
    IN IF m \notin {Undefined, Null} THEN m.s
       ELSE IF e \notin {Undefined, Null} THEN e.s
       ELSE CASE s = 400 -> "bad request"
              [] s = 401 -> "authentication required"
              [] s = 403 -> "access denied"
              [] s = 404 -> "resource not found"
              [] s = 500 -> "server error"
              [] OTHER -> "unknown error (status: " \o ToString(s) \o ")"

\* C1: a response with ok = false makes the call fail with an ApiError whose
\* status is the response's status and whose message is the body's message
\* field, else its error field, else the table default of the status, else
\* the generic message with the status; an unreadable body counts as no
\* message.
C1_NonOkRaisesApiError ==
    NonOkSettled =>
        /\ outcome.kind = "thrown"
        /\ outcome.error.name = "ApiError"
        /\ outcome.error.status = response.status
        /\ outcome.error.message = C1_ExpectedMessage

\* a 400 whose body cannot be parsed ends with the table default of 400
C1_Witness ==
    /\ NonOkSettled
    /\ response.status = 400
    /\ response.json.settle = "reject"
    /\ outcome.kind = "thrown"
    /\ outcome.error.message = "bad request"

\* C2: when the transport call itself fails, the call fails with an ApiError
\* of status 0 whose message reports a network failure, for an Error and
\* for any other thrown value, and no response body is read.
C2_TransportFailureIsStatusZero ==
    (pc = "settled" /\ caught # NotCaught) =>
        /\ outcome.kind = "thrown"
        /\ outcome.error.name = "ApiError"
        /\ outcome.error.status = 0
        /\ outcome.error.message =
              IF caught.t = "Error"
              THEN "network error: " \o caught.message
              ELSE "a network error occurred"
        /\ response = NoResponse
        /\ jsonCalls = 0

\* the transport rejected with a value that is not an Error
C2_Witness ==
    /\ pc = "settled"
    /\ caught = Str("offline")
    /\ outcome.kind = "thrown"
    /\ outcome.error.status = 0

\* C3: an ApiError raised after the transport resolved with a response never
\* has status 0.
C3_StatusZeroMeansNoResponse ==
    (pc = "settled" /\ outcome.kind = "thrown" /\ response # NoResponse) =>
        outcome.error.status # 0

\* C4: an ok response of status 204 yields undefined and its body is never
\* read.
C4_NoContentReturnsUndefined ==
    (pc = "settled" /\ response # NoResponse /\ response.ok /\ response.status = 204) =>
        /\ outcome = Returned(Undefined)
        /\ jsonCalls = 0

C4_Witness ==
    /\ pc = "settled"
    /\ response # NoResponse
    /\ response.status = 204
    /\ response.json.settle = "resolve"
    /\ outcome = Returned(Undefined)

\* C5: an ok response of a status other than 204 whose body parses yields
\* exactly the value response.json() resolved with.
C5_SuccessReturnsDecodedBody ==
    (/\ pc = "settled"
     /\ response # NoResponse
     /\ response.ok
     /\ response.status # 204
     /\ response.json.settle = "resolve") =>
        /\ outcome.kind = "returned"
        /\ outcome.value = response.json.value

C5_Witness ==
    /\ pc = "settled"
    /\ response # NoResponse
    /\ response.status = 200
    /\ outcome = Returned(Obj(<< <<"id", Num(1)>>, <<"name", Str("Test User")>> >>))

\* C6: an ok response of a status other than 204 whose body cannot be parsed
\* makes the call fail with an ApiError of the response's status and the
\* cannot-parse message; no value is returned.
C6_UnparsableSuccessRaises ==
    (/\ pc = "settled"
     /\ response # NoResponse
     /\ response.ok
     /\ response.status # 204
     /\ response.json.settle = "reject") =>
        /\ outcome.kind = "thrown"
        /\ outcome.error.name = "ApiError"
        /\ outcome.error.status = response.status
        /\ outcome.error.message = "cannot parse the response"

C6_Witness ==
    /\ pc = "settled"
    /\ response # NoResponse
    /\ response.status = 201
    /\ response.json.settle = "reject"
    /\ outcome.kind = "thrown"
    /\ outcome.error.status = 201

\* the JSON text of each plain-mapping body of the model, written by hand
C7_ExpectedText(body) ==
    CASE body = Obj(<<>>) -> "{}"
      [] body = Obj(<< <<"name", Str("New User")>>,
                       <<"email", Str("test@example.com")>> >>)
           -> "{\"name\":\"New User\",\"email\":\"test@example.com\"}"
      [] body = Obj(<< <<"id", Num(1)>>, <<"nick", Undefined>>, <<"tag", Null>> >>)
           -> "{\"id\":1,\"tag\":null}"

\* C7: for a plain-mapping body the transport gets the JSON text of the
\* mapping, Content-Type: application/json unless the caller supplied a
\* Content-Type (then the caller's), and every other caller-supplied header
\* with the caller's value.
C7_JsonBodyAndHeaders ==
    (pc # "idle" /\ options.body \in JsonBodies) =>
        /\ Transmitted.body = Str(C7_ExpectedText(options.body))
        /\ "Content-Type" \in DOMAIN Transmitted.headers
        /\ Transmitted.headers["Content-Type"] =
              IF "Content-Type" \in DOMAIN CallerHeaders
              THEN CallerHeaders["Content-Type"]
              ELSE "application/json"
        /\ \A k \in DOMAIN CallerHeaders :
              /\ k \in DOMAIN Transmitted.headers
              /\ Transmitted.headers[k] = CallerHeaders[k]

\* C8: for a FormData body the transport gets the same payload and exactly
\* the caller-supplied headers; no Content-Type is added.
C8_FormDataUntouched ==
    (pc # "idle" /\ options.body \in FormDatas) =>
        /\ Transmitted.body = options.body
        /\ Transmitted.headers = CallerHeaders

\* C9: the predicates are functions of status alone: isAuthError exactly for
\* 401 and 403, isClientError exactly for 400..499, isServerError exactly
\* for 500..599; status 0 satisfies none, and isClientError and
\* isServerError never hold together.
C9_ClassificationByStatus ==
    classified.done =>
        /\ classified.isAuthError = (apiError.status \in {401, 403})
        /\ classified.isClientError = (apiError.status \in 400..499)
        /\ classified.isServerError = (apiError.status \in 500..599)
        /\ apiError.status = 0 =>
              /\ ~classified.isAuthError
              /\ ~classified.isClientError
              /\ ~classified.isServerError
        /\ ~(classified.isClientError /\ classified.isServerError)

\* the first status past the 4xx range has been classified
C9_Witness ==
    /\ classified.done
    /\ apiError.status = 500
    /\ classified.isServerError
    /\ ~classified.isClientError
    /\ ~classified.isAuthError

C11_ErrorCarriesEndpoint ==
    (pc = "settled" /\ outcome.kind = "thrown") =>
        /\ outcome.error.endpoint = endpoint
        /\ outcome.error.endpoint = fetchCalls[1].endpoint
        /\ outcome.error.endpoint \in Endpoints

\* a 404 with an empty object body, raised for the second endpoint
C11_Witness ==
    /\ pc = "settled"
    /\ endpoint = "/api/users/1"
    /\ response # NoResponse
    /\ response.status = 404
    /\ response.json = [settle |-> "resolve", value |-> Obj(<<>>)]
    /\ outcome.kind = "thrown"
    /\ outcome.error.endpoint = "/api/users/1"

\* the per-call and the client-wide headers as the caller wrote them,
\* whatever the form of the HeadersInit
C12_PerCall ==
    IF clientCall.options.headers = Undefined
    THEN EmptyRecord ELSE clientCall.options.headers.h

C12_Defaults == client.defaultHeaders.h

C12_BuiltIn ==
    IF clientCall.body # Undefined /\ clientCall.body.t = "FormData"
    THEN EmptyRecord
    ELSE ("Content-Type" :> "application/json")

C12_Layered ==
    [k \in DOMAIN C12_PerCall \cup DOMAIN C12_Defaults \cup DOMAIN C12_BuiltIn |->
        IF k \in DOMAIN C12_PerCall THEN C12_PerCall[k]
        ELSE IF k \in DOMAIN C12_Defaults THEN C12_Defaults[k]
        ELSE C12_BuiltIn[k]]

\* C12: the request a verb method of a client sends has that verb as its
\* method whatever the caller's options contain, and its headers are the
\* per-call headers over the client's defaultHeaders over the built-in
\* Content-Type: application/json (built-in absent for a FormData body).
C12_VerbAndHeaderLayers ==
    (pc # "idle" /\ clientCall # NoClientCall) =>
        /\ Transmitted.method = Str(clientCall.verb)
        /\ Transmitted.headers = C12_Layered

====
